---- MODULE Spec2Model ----
(***************************************************************************)
(* url-get: fetch and parse YAML or JSON content at local or remote URLs.  *)
(*                                                                         *)
(* Strings are modelled as sequences of one-character strings, so that the *)
(* string functions of src/index.js (the protocol regex, basename, split,  *)
(* the numeric test, path.resolve, the URL parser) are computed character  *)
(* by character.  A promise is a record [st, val]; one action of the model *)
(* is one synchronous run of JavaScript (a call, or one promise callback). *)
(***************************************************************************)
EXTENDS Integers, Sequences, FiniteSets, TLC

(***************************************************************************)
(* Characters and elementary string functions                              *)
(***************************************************************************)
Lower == {"a","b","c","d","e","f","g","h","i","j","k","l","m",
          "n","o","p","q","r","s","t","u","v","w","x","y","z"}

Upper == {"A","B","C","D","E","F","G","H","I","J","K","L","M",
          "N","O","P","Q","R","S","T","U","V","W","X","Y","Z"}

Digits == {"0","1","2","3","4","5","6","7","8","9"}

HexDigits == Digits \cup {"a","b","c","d","e","f","A","B","C","D","E","F"}

\* The value `undefined' of an omitted argument: a one-element sequence whose
\* element is not a character, so that it is comparable with every string.
Undefined == <<"undefined">>

\* JavaScript truthiness of a string-or-undefined value.
Truthy(s) == s /= Undefined /\ s /= <<>>

AllIn(s, S) == \A i \in 1..Len(s) : s[i] \in S

StartsWith(s, p) == Len(s) >= Len(p) /\ SubSeq(s, 1, Len(p)) = p

\* Index of the first occurrence of one of the characters of S in s, 0 if none.
RECURSIVE IndexOfAny(_, _, _)
IndexOfAny(s, S, from) ==
    IF from > Len(s) THEN 0
    ELSE IF s[from] \in S THEN from
    ELSE IndexOfAny(s, S, from + 1)

\* String.prototype.split(sep) for a one-character separator.
RECURSIVE Split(_, _)
Split(s, sep) ==
    LET i == IndexOfAny(s, {sep}, 1)
    IN  IF i = 0 THEN <<s>>
        ELSE <<SubSeq(s, 1, i - 1)>> \o Split(SubSeq(s, i + 1, Len(s)), sep)

\* Array.prototype.join for a list of strings, every part preceded by sep.
RECURSIVE JoinLeading(_, _)
JoinLeading(parts, sep) ==
    IF parts = <<>> THEN <<>>
    ELSE sep \o Head(parts) \o JoinLeading(Tail(parts), sep)

RECURSIVE TrimLeft(_)
TrimLeft(s) == IF s /= <<>> /\ Head(s) = " " THEN TrimLeft(Tail(s)) ELSE s

RECURSIVE TrimRight(_)
TrimRight(s) ==
    IF s /= <<>> /\ s[Len(s)] = " " THEN TrimRight(SubSeq(s, 1, Len(s) - 1)) ELSE s

(***************************************************************************)
(* uriHasProtocol: /^[a-zA-Z0-9+.-]+:\/\//                                 *)
(***************************************************************************)
SchemeChars == Lower \cup Upper \cup Digits \cup {"+", ".", "-"}

uriProtocolRegex(s) ==
    \E n \in 1..Len(s) :
        /\ \A i \in 1..n : s[i] \in SchemeChars
        /\ n + 3 <= Len(s)
        /\ s[n + 1] = ":" /\ s[n + 2] = "/" /\ s[n + 3] = "/"

\* RegExp.test converts its argument to a string: undefined becomes the text
\* "undefined", which carries no protocol.
uriHasProtocol(uri) == uri /= Undefined /\ uriProtocolRegex(uri)

(***************************************************************************)
(* fileExtension                                                           *)
(***************************************************************************)
RECURSIVE StripTrailingSlashes(_)
StripTrailingSlashes(s) ==
    IF s /= <<>> /\ s[Len(s)] = "/"
    THEN StripTrailingSlashes(SubSeq(s, 1, Len(s) - 1))
    ELSE s

\* path.basename (posix): the last segment, trailing separators ignored.
basename(p) ==
    LET parts == Split(StripTrailingSlashes(p), "/")
    IN  parts[Len(parts)]

IsDigits(s) == s /= <<>> /\ AllIn(s, Digits)

Unsigned(s) == IF s /= <<>> /\ Head(s) \in {"+", "-"} THEN Tail(s) ELSE s

\* StrDecimalLiteral without a decimal point (the argument never holds a '.',
\* it is a part of a split on '.').
IsDecimalLiteral(s) ==
    LET u == Unsigned(s)
    IN  \/ IsDigits(u)
        \/ u = <<"I","n","f","i","n","i","t","y">>
        \/ \E i \in 2..(Len(u) - 1) :
              /\ u[i] \in {"e", "E"}
              /\ IsDigits(SubSeq(u, 1, i - 1))
              /\ IsDigits(Unsigned(SubSeq(u, i + 1, Len(u))))

IsRadixLiteral(s) ==
    /\ Len(s) >= 3
    /\ s[1] = "0"
    /\ \/ s[2] \in {"x", "X"} /\ AllIn(SubSeq(s, 3, Len(s)), HexDigits)
       \/ s[2] \in {"o", "O"} /\ AllIn(SubSeq(s, 3, Len(s)), {"0","1","2","3","4","5","6","7"})
       \/ s[2] \in {"b", "B"} /\ AllIn(SubSeq(s, 3, Len(s)), {"0","1"})

\* The global isNaN applied to a string: Number(s) is NaN unless the trimmed
\* string is empty or a numeric literal.
isNaN(s) ==
    LET t == TrimRight(TrimLeft(s))
    IN  ~ (t = <<>> \/ IsDecimalLiteral(t) \/ IsRadixLiteral(t))

fileExtension(filename) ==
    IF ~ Truthy(filename) THEN <<>>
    ELSE LET parts == Split(basename(filename), ".")
         IN  IF Len(parts) > 1 /\ isNaN(parts[Len(parts)])
             THEN parts[Len(parts)]
             ELSE <<>>

(***************************************************************************)
(* resolveUri                                                              *)
(***************************************************************************)
\* The current working directory of the process (process.cwd()).
Cwd == <<"/", "w">>

\* normalizeString of path.resolve: drop empty and '.' segments, let '..'
\* remove the segment before it (never going above the root).
RECURSIVE NormalizeSegments(_, _)
NormalizeSegments(segs, acc) ==
    IF segs = <<>> THEN acc
    ELSE LET seg == Head(segs)
         IN  IF seg = <<>> \/ seg = <<".">>
             THEN NormalizeSegments(Tail(segs), acc)
             ELSE IF seg = <<".", ".">>
             THEN NormalizeSegments(Tail(segs),
                      IF acc = <<>> THEN acc ELSE SubSeq(acc, 1, Len(acc) - 1))
             ELSE NormalizeSegments(Tail(segs), Append(acc, seg))

\* path.resolve(p) (posix) for one argument.
pathResolve(p) ==
    LET full == IF p /= <<>> /\ Head(p) = "/" THEN p ELSE Cwd \o <<"/">> \o p
        segs == NormalizeSegments(Split(full, "/"), <<>>)
    IN  IF segs = <<>> THEN <<"/">> ELSE JoinLeading(segs, <<"/">>)

FileScheme == <<"f","i","l","e",":","/","/">>

\* `uri + defaultFileExtension', `baseUri + url': string concatenation.
Concat(a, b) == a \o b

\* Variant: the base URI is prepended whether or not the uri is qualified.
resolveUriAlwaysPrepending(uri, baseUri, defaultFileExtension) ==
    LET url1 == IF fileExtension(uri) = <<>> /\ Truthy(defaultFileExtension)
                THEN Concat(uri, defaultFileExtension)
                ELSE uri
        url2 == IF Truthy(baseUri) THEN Concat(baseUri, url1) ELSE url1
    IN  IF ~ uriHasProtocol(url2)
        THEN FileScheme \o pathResolve(url2)
        ELSE url2

resolveUri(uri, baseUri, defaultFileExtension) ==
    LET url1 == IF fileExtension(uri) = <<>> /\ Truthy(defaultFileExtension)
                THEN Concat(uri, defaultFileExtension)
                ELSE uri
        url2 == IF Truthy(baseUri) /\ ~ uriHasProtocol(url1)
                THEN Concat(baseUri, url1)
                ELSE url1
    IN  IF ~ uriHasProtocol(url2)
        THEN FileScheme \o pathResolve(url2)
        ELSE url2

(***************************************************************************)
(* new URL(url).pathname for a file:// URL (WHATWG URL parser).            *)
(* Modelled for URLs whose text after the scheme is made of letters,       *)
(* digits and the characters / . - + space ? # " < > { }                   *)
(***************************************************************************)
HostChars == Lower \cup Upper \cup Digits \cup {".", "-", "+"}

\* The path percent-encode set.
PercentEncodeChar(c) ==
    CASE c = " "  -> <<"%", "2", "0">>
      [] c = "\"" -> <<"%", "2", "2">>
      [] c = "<"  -> <<"%", "3", "C">>
      [] c = ">"  -> <<"%", "3", "E">>
      [] c = "{"  -> <<"%", "7", "B">>
      [] c = "}"  -> <<"%", "7", "D">>
      [] OTHER    -> <<c>>

RECURSIVE PercentEncode(_)
PercentEncode(s) ==
    IF s = <<>> THEN <<>> ELSE PercentEncodeChar(Head(s)) \o PercentEncode(Tail(s))

\* The path state of the URL parser: '..' removes the last segment, '.' is
\* dropped, both leave an empty segment when they end the path; every other
\* segment is percent-encoded and appended.
RECURSIVE UrlPathSegments(_, _)
UrlPathSegments(segs, acc) ==
    IF segs = <<>> THEN acc
    ELSE LET seg  == Head(segs)
             last == Len(segs) = 1
             pop  == IF acc = <<>> THEN acc ELSE SubSeq(acc, 1, Len(acc) - 1)
         IN  IF seg = <<".", ".">>
             THEN UrlPathSegments(Tail(segs), IF last THEN Append(pop, <<>>) ELSE pop)
             ELSE IF seg = <<".">>
             THEN UrlPathSegments(Tail(segs), IF last THEN Append(acc, <<>>) ELSE acc)
             ELSE UrlPathSegments(Tail(segs), Append(acc, PercentEncode(seg)))

\* new URL(url) for a url that starts with file:// : either throws a
\* TypeError (invalid host) or yields the pathname.
URLParse(url) ==
    LET input   == TrimRight(url)
        rest    == SubSeq(input, Len(FileScheme) + 1, Len(input))
        hEnd    == IndexOfAny(rest, {"/", "?", "#"}, 1)
        host    == IF hEnd = 0 THEN rest ELSE SubSeq(rest, 1, hEnd - 1)
        after   == IF hEnd = 0 THEN <<>> ELSE SubSeq(rest, hEnd, Len(rest))
        pEnd    == IndexOfAny(after, {"?", "#"}, 1)
        rawPath == IF pEnd = 0 THEN after ELSE SubSeq(after, 1, pEnd - 1)
        segs    == IF rawPath = <<>> THEN <<>> ELSE Split(Tail(rawPath), "/")
        path    == IF segs = <<>> THEN << <<>> >> ELSE UrlPathSegments(segs, <<>>)
    IN  IF ~ AllIn(host, HostChars)
        THEN [throws |-> TRUE,  pathname |-> <<>>]
        ELSE [throws |-> FALSE, pathname |-> JoinLeading(path, <<"/">>)]

(***************************************************************************)
(* objectFactory                                                           *)
(*                                                                         *)
(* A JavaScript value is a record with a field `kind':                     *)
(*   [kind |-> "object", obj |-> f]      a plain object                    *)
(*   [kind |-> "buffer", bytes |-> b]    a Buffer (sequence of byte codes) *)
(*   [kind |-> "string", text |-> s]     a string                          *)
(*   [kind |-> "number", num |-> n], [kind |-> "null"],                    *)
(*   [kind |-> "undefined"]                                                *)
(*   [kind |-> "error", ...]             an Error object                   *)
(***************************************************************************)
JsUndefined == [kind |-> "undefined"]

JsNull == [kind |-> "null"]

\* Buffer.prototype.toString('utf-8') on the ASCII bytes the model uses.
CharOfByte(b) ==
    CASE b = 32  -> " "
      [] b = 34  -> "\""
      [] b = 49  -> "1"
      [] b = 50  -> "2"
      [] b = 52  -> "4"
      [] b = 58  -> ":"
      [] b = 97  -> "a"
      [] b = 123 -> "{"
      [] b = 125 -> "}"
      [] OTHER   -> "?"

Utf8ToString(bytes) == [i \in 1..Len(bytes) |-> CharOfByte(bytes[i])]

\* yaml.safeLoad on the documents the model uses: a YAML mapping, the same
\* mapping as JSON, a decimal integer, the empty document, the null document
\* and a malformed flow mapping; any other text is a plain scalar (a string).
ObjA == [kind |-> "object", obj |-> [a |-> 1]]

DigitValue(c) ==
    CASE c = "0" -> 0 [] c = "1" -> 1 [] c = "2" -> 2 [] c = "3" -> 3
      [] c = "4" -> 4 [] c = "5" -> 5 [] c = "6" -> 6 [] c = "7" -> 7
      [] c = "8" -> 8 [] c = "9" -> 9

RECURSIVE DecimalValue(_)
DecimalValue(s) ==
    IF s = <<>> THEN 0
    ELSE 10 * DecimalValue(SubSeq(s, 1, Len(s) - 1)) + DigitValue(s[Len(s)])

\* The core schema's decimal integer, [1-9][0-9]* or a single digit.
IsYamlInt(text) == IsDigits(text) /\ (Len(text) = 1 \/ text[1] /= "0")

yamlSafeLoad(text) ==
    CASE text = <<"a", ":", " ", "1">>
            -> [throws |-> FALSE, value |-> ObjA]
      [] text = <<"{", "\"", "a", "\"", ":", "1", "}">>
            -> [throws |-> FALSE, value |-> ObjA]
      [] IsYamlInt(text)
            -> [throws |-> FALSE,
                value  |-> [kind |-> "number", num |-> DecimalValue(text)]]
      [] text = <<>>
            -> [throws |-> FALSE, value |-> JsUndefined]
      [] text = <<"n", "u", "l", "l">>
            -> [throws |-> FALSE, value |-> JsNull]
      [] text = <<"{", "a">>
            -> [throws |-> TRUE,
                value  |-> [kind |-> "error", name |-> "YAMLException"]]
      [] OTHER
            -> [throws |-> FALSE, value |-> [kind |-> "string", text |-> text]]

\* _.isObject: objects, arrays and functions (a Buffer is tested before).
isObject(data) == data.kind \in {"object", "buffer", "error"}

\* The result of objectFactory(data): [throws, value], value being the
\* returned value or the thrown error.
objectFactory(data) ==
    LET data1 == IF data.kind = "buffer"
                 THEN [kind |-> "string", text |-> Utf8ToString(data.bytes)]
                 ELSE data
    IN  IF data.kind /= "buffer" /\ isObject(data)
        THEN [throws |-> FALSE, value |-> data]
        ELSE IF data1.kind = "string"
        THEN yamlSafeLoad(data1.text)
        ELSE [throws |-> TRUE,
              value  |-> [kind |-> "error", name |-> "Error"]]

(***************************************************************************)
(* urlGet                                                                  *)
(*                                                                         *)
(* An options object is a function from its keys to their values;          *)
(* `options.uri = url' adds or overwrites the key "uri".                   *)
(***************************************************************************)
\* Variant: a `uri' already present in the options is kept.
SetUriIfAbsent(options, url) ==
    [key \in DOMAIN options \cup {"uri"} |->
        IF key \in DOMAIN options THEN options[key] ELSE url]

SetUri(options, url) ==
    [key \in DOMAIN options \cup {"uri"} |->
        IF key = "uri" THEN url ELSE options[key]]

\* The URI preq.get(options) requests: the `uri' of the options it is given.
RequestUri(options) == options["uri"]

\* The synchronous part of urlGet(url, options): which collaborator is
\* called (fn), with which path (readFile) and with which options object
\* contents; `options' is also the contents of the caller's object after the
\* call.  new URL(url) may throw, then no collaborator is called.
urlGet(url, options) ==
    IF ~ uriHasProtocol(url)
    THEN [threw |-> FALSE, fn |-> "readFile", path |-> url, options |-> options]
    ELSE IF StartsWith(url, FileScheme)
    THEN LET u == URLParse(url)
         IN  IF u.throws
             THEN [threw |-> TRUE, fn |-> "none", path |-> <<>>, options |-> options]
             ELSE [threw |-> FALSE, fn |-> "readFile", path |-> u.pathname,
                   options |-> options]
    ELSE [threw |-> FALSE, fn |-> "preq.get", path |-> <<>>,
          options |-> SetUri(options, url)]

(***************************************************************************)
(* Promises                                                                *)
(***************************************************************************)
Pending == [st |-> "pending", val |-> JsUndefined]

Fulfilled(v) == [st |-> "fulfilled", val |-> v]

Rejected(e) == [st |-> "rejected", val |-> e]

Settled(p) == p.st /= "pending"

\* Variant: the chain is seeded with a resolved promise.
SeedResolved == Fulfilled(JsUndefined)

\* P.reject(): the seed of the chain.
Seed == Rejected(JsUndefined)

\* Variant: the handler runs however the promise settled (.finally-like).
CatchRunsAlways(p) == p.st /= "pending"

\* promise.catch(handler): the handler runs iff the promise is rejected; a
\* fulfilled promise passes through.
CatchRuns(p) == p.st = "rejected"

\* Variant: a rejection of the handler's promise keeps the error caught.
AdoptKeepingFirstError(prev, inner) ==
    IF inner.st = "rejected" /\ prev.val.kind = "error" THEN prev ELSE inner

\* The promise returned by promise.catch(() => inner) once the handler ran:
\* it follows the promise the handler returned.
Adopt(prev, inner) == inner

\* Variant: the content is handed on without being decoded.
ThenRawContent(content, n) == [st |-> "fulfilled", val |-> content]

\* content => objectFactory(content), as the settlement of the promise
\* returned by .then; n identifies the Error object thrown.
ThenObjectFactory(content, n) ==
    LET r == objectFactory(content)
    IN  IF r.throws
        THEN Rejected([kind |-> "error", name |-> r.value.name, n |-> n])
        ELSE Fulfilled(r.value)

\* urls.reduce((promise, url) => promise.catch(...), P.reject()): the chain
\* p0 = seed, p1 .. pn, built synchronously.
BuildChain(us) == <<Seed>> \o [i \in 1..Len(us) |-> Pending]

\* if (!_.isArray(x)) x = [x]
ToArray(arg) == IF arg.isArray THEN arg.items ELSE <<arg.items>>

\* Variant: the base URIs are taken last to first.
MapResolveUriReversed(uri, baseUris, defaultFileExtension) ==
    [i \in 1..Len(baseUris) |->
        resolveUri(uri, baseUris[Len(baseUris) + 1 - i], defaultFileExtension)]

\* _.map(baseUris, baseUri => resolveUri(uri, baseUri, defaultFileExtension))
MapResolveUri(uri, baseUris, defaultFileExtension) ==
    [i \in 1..Len(baseUris) |-> resolveUri(uri, baseUris[i], defaultFileExtension)]

(***************************************************************************)
(* Inputs                                                                  *)
(***************************************************************************)
\* Longest list of URLs given to urlGetFirstObject by a lone caller.
MaxUrls == 3

\* Longest list of base URIs given to uriGetFirstObject.
MaxBases == 2

\* Longest list of URLs given by each of two interleaved callers.
MaxConcUrls == 2

Calls == {1, 2}

UBare == <<"/","t","/","x">>

UFile == <<"f","i","l","e",":","/","/","/","t","/","x">>

UFileSpace == <<"f","i","l","e",":","/","/","/","t","/","a"," ","b">>

UHttp == <<"h","t","t","p",":","/","/","h","/","x">>

UHttp2 == <<"h","t","t","p",":","/","/","h","/","z">>

UrlInputs == {UBare, UFile, UFileSpace, UHttp}

\* The URLs of the first and of the second of two interleaved callers.
ConcUrlInputs1 == {UBare, UHttp}

ConcUrlInputs2 == {UBare, UHttp2}

UriInputs == {<<"x">>, <<"x",".","y">>, UHttp}

BaseInputs == {<<"/","t","/">>, <<"t","/">>, <<"h","t","t","p",":","/","/","h","/">>}

ExtInputs == {Undefined, <<".","y">>}

SeqsUpTo(S, n) == UNION {[1..m -> S] : m \in 0..n}

\* An argument that is either an array of strings or one string.
ArrayOrOne(S, n) ==
    {[isArray |-> TRUE, items |-> l] : l \in SeqsUpTo(S, n)}
        \cup {[isArray |-> FALSE, items |-> x] : x \in S}

\* The arguments of the entry points.
UrlArgs == ArrayOrOne(UrlInputs, MaxUrls)

ConcUrlArgs1 == ArrayOrOne(ConcUrlInputs1, MaxConcUrls)

ConcUrlArgs2 == ArrayOrOne(ConcUrlInputs2, MaxConcUrls)

BaseArgs == ArrayOrOne(BaseInputs, MaxBases)

\* Options objects a caller supplies: {} and {encoding: 'utf8'}.
EmptyBag == [key \in {} |-> <<>>]

EncodingBag == [key \in {"encoding"} |-> <<"u","t","f","8">>]

OptionBags == {EmptyBag, EncodingBag}

\* Every URL a candidate list can hold and every contents an options object
\* can have.
KnownUrls ==
    UrlInputs \cup ConcUrlInputs1 \cup ConcUrlInputs2
        \cup {resolveUri(uri, baseUri, ext) :
                 uri \in UriInputs, baseUri \in BaseInputs, ext \in ExtInputs}

KnownBags ==
    OptionBags \cup {SetUri(bag, url) : bag \in OptionBags, url \in KnownUrls}

\* urlGet tabulated over the arguments that occur (the string functions are
\* costly to evaluate again at every step).
UrlGetTable == [url \in KnownUrls, options \in KnownBags |-> urlGet(url, options)]

\* What a collaborator may deliver: a Buffer holding the YAML document
\* 'a: 1', or a string holding the malformed document '{a'.
BufferA == [kind |-> "buffer", bytes |-> <<97, 58, 32, 49>>]

StringBad == [kind |-> "string", text |-> <<"{", "a">>]

Contents == {BufferA, StringBad}

(***************************************************************************)
(* State                                                                   *)
(***************************************************************************)
VARIABLES
    heap,       \* options object -> its contents
    entry,      \* invocation -> the entry point called and its arguments
    opt,        \* invocation -> the options object it was given
    given,      \* invocation -> contents of that object when it was called
    urls,       \* invocation -> the candidate list (after ToArray)
    prom,       \* invocation -> the promise chain p0 .. pn; pn is returned
    ran,        \* invocation -> indices of the .catch links already processed
    attempts,   \* invocation -> the urlGetObject calls made, in order
    calls,      \* invocation -> the collaborator calls made, in order
    pure        \* a direct call of one of the pure functions and its result

vars == <<heap, entry, opt, given, urls, prom, ran, attempts, calls, pure>>

Idle == [fn |-> "idle"]

NoPure == [fn |-> "none"]

\* The inputs are strings over the characters the string functions are
\* modelled for (undefined where the code allows it).
Chars ==
    Lower \cup Upper \cup Digits
        \cup {"/", ":", ".", "-", "+", " ", "?", "#", "\"", "<", ">", "{", "}"}

IsString(s) == AllIn(s, Chars)

IsStringOrArray(arg) ==
    IF arg.isArray
    THEN \A i \in 1..Len(arg.items) : IsString(arg.items[i])
    ELSE IsString(arg.items)

InputsAreStrings ==
    /\ \A arg \in UrlArgs \cup ConcUrlArgs1 \cup ConcUrlArgs2 \cup BaseArgs :
          IsStringOrArray(arg)
    /\ \A u \in UriInputs : IsString(u)
    /\ \A e \in ExtInputs : e = Undefined \/ IsString(e)
    /\ \A c \in Contents : c.kind \in {"buffer", "string"}

Init ==
    /\ InputsAreStrings
    /\ \E bag \in OptionBags : heap = [o \in Calls |-> bag]
    /\ pure = NoPure
    /\ entry = [k \in Calls |-> Idle]
    /\ opt = [k \in Calls |-> k]
    /\ given = [k \in Calls |-> EmptyBag]
    /\ urls = [k \in Calls |-> <<>>]
    /\ prom = [k \in Calls |-> <<>>]
    /\ ran = [k \in Calls |-> {}]
    /\ attempts = [k \in Calls |-> <<>>]
    /\ calls = [k \in Calls |-> <<>>]

\* The promise an invocation returned to its caller.
Returned(k) == prom[k][Len(prom[k])]

Called(k) == entry[k].fn /= "idle"

(***************************************************************************)
(* Entry points                                                            *)
(***************************************************************************)
\* Body of urlGetFirstObject(urlsArg, options): wrap, build the chain.
urlGetFirstObject(k, urlsArg, o) ==
    /\ urls' = [urls EXCEPT ![k] = ToArray(urlsArg)]
    /\ prom' = [prom EXCEPT ![k] = BuildChain(ToArray(urlsArg))]
    /\ opt' = [opt EXCEPT ![k] = o]
    /\ given' = [given EXCEPT ![k] = heap[o]]
    /\ UNCHANGED <<heap, ran, attempts, calls, pure>>

CallUrlGetFirstObject(k, Args, Os) ==
    /\ ~ Called(k)
    /\ \E urlsArg \in Args, o \in Os :
        /\ entry' = [entry EXCEPT ![k] =
                        [fn |-> "urlGetFirstObject", urls |-> urlsArg]]
        /\ urlGetFirstObject(k, urlsArg, o)

\* uriGetFirstObject(uri, baseUris, defaultFileExtension, options)
CallUriGetFirstObject(k, Os) ==
    /\ ~ Called(k)
    /\ \E uri \in UriInputs, basesArg \in BaseArgs,
          ext \in ExtInputs, o \in Os :
        /\ entry' = [entry EXCEPT ![k] =
                        [fn |-> "uriGetFirstObject", uri |-> uri,
                         baseUris |-> basesArg, ext |-> ext]]
        /\ urlGetFirstObject(k,
               [isArray |-> TRUE,
                items |-> MapResolveUri(uri, ToArray(basesArg), ext)], o)

(***************************************************************************)
(* Promise callbacks                                                       *)
(***************************************************************************)
\* The handler of link i runs: () => urlGetObject(url, options), which runs
\* urlGet synchronously.  A throw inside the handler rejects p_i at once.
CatchHandler(k, i) ==
    /\ Called(k)
    /\ i \in 1..Len(urls[k])
    /\ i \notin ran[k]
    /\ CatchRuns(prom[k][i])
    /\ LET n == Len(attempts[k]) + 1
           g == UrlGetTable[urls[k][i], heap[opt[k]]]
       IN  /\ ran' = [ran EXCEPT ![k] = @ \cup {i}]
           /\ heap' = [heap EXCEPT ![opt[k]] = g.options]
           /\ IF g.threw
              THEN LET p == Rejected([kind |-> "error", name |-> "TypeError", n |-> n])
                   IN  /\ attempts' = [attempts EXCEPT ![k] = Append(@,
                               [cand |-> i, phase |-> "settled",
                                data |-> JsUndefined, p |-> p])]
                       /\ prom' = [prom EXCEPT ![k][i + 1] = Adopt(prom[k][i], p)]
                       /\ UNCHANGED calls
              ELSE /\ attempts' = [attempts EXCEPT ![k] = Append(@,
                           [cand |-> i, phase |-> "fetching",
                            data |-> JsUndefined, p |-> Pending])]
                   /\ calls' = [calls EXCEPT ![k] = Append(@,
                           [attempt |-> n, cand |-> i, fn |-> g.fn,
                            target |-> IF g.fn = "readFile" THEN g.path
                                       ELSE RequestUri(g.options),
                            options |-> g.options])]
                   /\ UNCHANGED prom
    /\ UNCHANGED <<entry, opt, given, urls, pure>>

\* Link i is passed over: p_(i-1) settled in a way its handler does not take.
PassThrough(k, i) ==
    /\ Called(k)
    /\ i \in 1..Len(urls[k])
    /\ i \notin ran[k]
    /\ Settled(prom[k][i])
    /\ ~ CatchRuns(prom[k][i])
    /\ ran' = [ran EXCEPT ![k] = @ \cup {i}]
    /\ prom' = [prom EXCEPT ![k][i + 1] = prom[k][i]]
    /\ UNCHANGED <<heap, entry, opt, given, urls, attempts, calls, pure>>

\* The collaborator of attempt a fails (missing file, network error, non-2xx
\* status): urlGet's promise rejects, .then passes the rejection on.
FetchFail(k, a) ==
    /\ a \in 1..Len(attempts[k])
    /\ attempts[k][a].phase = "fetching"
    /\ LET p == Rejected([kind |-> "error", name |-> "FetchError", n |-> a])
           i == attempts[k][a].cand
       IN  /\ attempts' = [attempts EXCEPT ![k][a].phase = "settled", ![k][a].p = p]
           /\ prom' = [prom EXCEPT ![k][i + 1] = Adopt(prom[k][i], p)]
    /\ UNCHANGED <<heap, entry, opt, given, urls, ran, calls, pure>>

\* The collaborator of attempt a delivers content (for preq.get: res.body).
FetchOk(k, a) ==
    /\ a \in 1..Len(attempts[k])
    /\ attempts[k][a].phase = "fetching"
    /\ \E content \in Contents :
        attempts' = [attempts EXCEPT ![k][a].phase = "content",
                                     ![k][a].data = content]
    /\ UNCHANGED <<heap, entry, opt, given, urls, prom, ran, calls, pure>>

\* .then(content => objectFactory(content)) of urlGetObject runs.
ThenHandler(k, a) ==
    /\ a \in 1..Len(attempts[k])
    /\ attempts[k][a].phase = "content"
    /\ LET p == ThenObjectFactory(attempts[k][a].data, a)
           i == attempts[k][a].cand
       IN  /\ attempts' = [attempts EXCEPT ![k][a].phase = "settled", ![k][a].p = p]
           /\ prom' = [prom EXCEPT ![k][i + 1] = Adopt(prom[k][i], p)]
    /\ UNCHANGED <<heap, entry, opt, given, urls, ran, calls, pure>>

\* Everything that happens after the call returned.
Progress(k) ==
    \/ \E i \in 1..Len(urls[k]) : CatchHandler(k, i)
    \/ \E i \in 1..Len(urls[k]) : PassThrough(k, i)
    \/ \E a \in 1..Len(attempts[k]) : FetchFail(k, a)
    \/ \E a \in 1..Len(attempts[k]) : FetchOk(k, a)
    \/ \E a \in 1..Len(attempts[k]) : ThenHandler(k, a)

(***************************************************************************)
(* Direct calls of the pure functions                                      *)
(***************************************************************************)
ResolveUriInputs ==
    {<<"x">>, <<"x",".","y">>, <<"a","/",".",".","/","x">>, <<"/","x">>,
     UHttp, UFile, <<"f","i","l","e",":","/","/","a","/","x">>}

ResolveBaseInputs ==
    {Undefined, <<>>, <<"/","t","/">>, <<"t","/">>,
     <<"h","t","t","p",":","/","/","h","/">>,
     <<"f","i","l","e",":","/","/","/","t","/">>,
     <<"f","i","l","e",":","/","/","t","/">>}

ResolveExtInputs == {Undefined, <<>>, <<".","y">>}

InitPure ==
    /\ heap = [o \in Calls |-> EmptyBag]
    /\ entry = [k \in Calls |-> Idle]
    /\ opt = [k \in Calls |-> k]
    /\ given = [k \in Calls |-> EmptyBag]
    /\ urls = [k \in Calls |-> <<>>]
    /\ prom = [k \in Calls |-> <<>>]
    /\ ran = [k \in Calls |-> {}]
    /\ attempts = [k \in Calls |-> <<>>]
    /\ calls = [k \in Calls |-> <<>>]
    /\ \E uri \in ResolveUriInputs, baseUri \in ResolveBaseInputs,
          ext \in ResolveExtInputs :
        pure = [fn |-> "resolveUri", done |-> FALSE,
                uri |-> uri, baseUri |-> baseUri, ext |-> ext,
                result |-> Undefined]

ApplyResolveUri ==
    /\ pure.fn = "resolveUri"
    /\ ~ pure.done
    /\ pure' = [pure EXCEPT !.done = TRUE,
                            !.result = resolveUri(pure.uri, pure.baseUri, pure.ext)]
    /\ UNCHANGED <<heap, entry, opt, given, urls, prom, ran, attempts, calls>>

NextPure == ApplyResolveUri

SpecPure == InitPure /\ [][NextPure]_vars

\* No call of the fetching entry points is under way.
NoCalls ==
    /\ heap = [o \in Calls |-> EmptyBag]
    /\ entry = [k \in Calls |-> Idle]
    /\ opt = [k \in Calls |-> k]
    /\ given = [k \in Calls |-> EmptyBag]
    /\ urls = [k \in Calls |-> <<>>]
    /\ prom = [k \in Calls |-> <<>>]
    /\ ran = [k \in Calls |-> {}]
    /\ attempts = [k \in Calls |-> <<>>]
    /\ calls = [k \in Calls |-> <<>>]

\* Direct calls of objectFactory.  The byte contents: decimal integers of up
\* to MaxDocLen digits, the documents of the tests and of the yaml table.
MaxDocLen == 3

DigitBytes == {49, 50, 52}

DecodeByteInputs ==
    (SeqsUpTo(DigitBytes, MaxDocLen))
        \cup {<<97, 58, 32, 49>>, <<123, 34, 97, 34, 58, 49, 125>>,
              <<123, 97>>, <<97>>}

DecodeTextInputs ==
    {Utf8ToString(b) : b \in DecodeByteInputs} \cup {<<"n", "u", "l", "l">>}

DecodeInputs ==
    {[kind |-> "buffer", bytes |-> b] : b \in DecodeByteInputs}
        \cup {[kind |-> "string", text |-> t] : t \in DecodeTextInputs}
        \cup {ObjA, [kind |-> "object", obj |-> [b |-> 2]]}
        \cup {[kind |-> "number", num |-> 123],
              [kind |-> "boolean", bool |-> TRUE], JsNull, JsUndefined}

InitDecode ==
    /\ NoCalls
    /\ \E data \in DecodeInputs :
        pure = [fn |-> "objectFactory", done |-> FALSE, data |-> data,
                result |-> [throws |-> FALSE, value |-> JsUndefined]]

ApplyObjectFactory ==
    /\ pure.fn = "objectFactory"
    /\ ~ pure.done
    /\ pure' = [pure EXCEPT !.done = TRUE,
                            !.result = objectFactory(pure.data)]
    /\ UNCHANGED <<heap, entry, opt, given, urls, prom, ran, attempts, calls>>

NextDecode == ApplyObjectFactory

SpecDecode == InitDecode /\ [][NextDecode]_vars

\* Direct calls of fileExtension.  A name is a directory, a stem, up to
\* MaxDots further parts each after a '.', and possibly a trailing '/'.
MaxDots == 2

NameDirs == {<<>>, <<"p", "/">>, <<"a", ".", "b", "/">>}

NameStems == {<<>>, <<"f">>}

NameParts ==
    {<<>>, <<"y", "a", "m", "l">>, <<"3">>, <<"1", "e", "5">>,
     <<"0", "x", "1", "f">>, <<"I","n","f","i","n","i","t","y">>,
     <<" ">>, <<" ", "1">>, <<"y", " ">>}

RECURSIVE JoinDotted(_)
JoinDotted(parts) ==
    IF parts = <<>> THEN <<>>
    ELSE <<".">> \o Head(parts) \o JoinDotted(Tail(parts))

FileNameInputs ==
    {Undefined}
        \cup {d \o st \o JoinDotted(ps) \o t :
                d \in NameDirs, st \in NameStems,
                ps \in SeqsUpTo(NameParts, MaxDots), t \in {<<>>, <<"/">>}}

InitExt ==
    /\ NoCalls
    /\ \E filename \in FileNameInputs :
        pure = [fn |-> "fileExtension", done |-> FALSE,
                filename |-> filename, result |-> Undefined]

ApplyFileExtension ==
    /\ pure.fn = "fileExtension"
    /\ ~ pure.done
    /\ pure' = [pure EXCEPT !.done = TRUE,
                            !.result = fileExtension(pure.filename)]
    /\ UNCHANGED <<heap, entry, opt, given, urls, prom, ran, attempts, calls>>

NextExt == ApplyFileExtension

SpecExt == InitExt /\ [][NextExt]_vars

(***************************************************************************)
(* Specifications                                                          *)
(***************************************************************************)
\* One caller.
Next ==
    \/ CallUrlGetFirstObject(1, UrlArgs, {1})
    \/ CallUriGetFirstObject(1, {1})
    \/ Progress(1)

Spec == Init /\ [][Next]_vars

\* The same, every started fetch settles and every callback runs.
FairSpec == Spec /\ WF_vars(Progress(1))

\* Two callers whose invocations interleave, sharing an options object or not.
NextConc ==
    \/ CallUrlGetFirstObject(1, ConcUrlArgs1, {1})
    \/ CallUrlGetFirstObject(2, ConcUrlArgs2, {1, 2})
    \/ \E k \in Calls : Progress(k)

SpecConc == Init /\ [][NextConc]_vars

(***************************************************************************)
(* Properties                                                              *)
(***************************************************************************)
\* Attempt a of invocation k fetched content and decoded it without error.
Succeeded(k, a) ==
    /\ attempts[k][a].phase = "settled"
    /\ attempts[k][a].data.kind /= "undefined"
    /\ ~ objectFactory(attempts[k][a].data).throws

Successes(k) == {a \in 1..Len(attempts[k]) : Succeeded(k, a)}

Min(S) == CHOOSE x \in S : \A y \in S : x <= y

\* C1: within one urlGetFirstObject call the candidates are attempted strictly
\* left to right and each at most once; candidate i is attempted only after
\* candidates 1..i-1 were attempted and failed, and once a candidate has
\* succeeded no later candidate is attempted and no collaborator is called
\* for it.
C1_SequentialAttempts ==
    Called(1) =>
        /\ \A a \in 1..Len(attempts[1]) :
              /\ attempts[1][a].cand = a
              /\ \A b \in 1..(a - 1) : attempts[1][b].p.st = "rejected"
              /\ attempts[1][a].p.st = "fulfilled" => Len(attempts[1]) = a
        /\ \A j \in 1..Len(calls[1]) :
              /\ calls[1][j].cand <= Len(attempts[1])
              /\ \A h \in 1..(j - 1) : calls[1][h].cand < calls[1][j].cand
              /\ \A b \in 1..(calls[1][j].cand - 1) :
                    attempts[1][b].p.st = "rejected"

\* C1 witness: the second of three candidates succeeded after the first
\* failed, the returned promise is settled and the third was never attempted.
C1_Witness ==
    /\ Called(1)
    /\ Len(urls[1]) = 3
    /\ Len(attempts[1]) = 2
    /\ attempts[1][1].p.st = "rejected"
    /\ attempts[1][2].p.st = "fulfilled"
    /\ Returned(1).st = "fulfilled"
    /\ Len(calls[1]) = 2

\* C2: a fulfilled urlGetFirstObject carries the decoded content of the
\* lowest-index candidate whose fetch and decode both succeeded; a candidate
\* whose content does not decode has failed (its promise is rejected), and
\* a settled call with a successful candidate is fulfilled.
C2_FirstDecodedSuccess ==
    Called(1) =>
        /\ Returned(1).st = "fulfilled" =>
              /\ Successes(1) /= {}
              /\ attempts[1][Min(Successes(1))].cand = Min(Successes(1))
              /\ Returned(1).val =
                     objectFactory(attempts[1][Min(Successes(1))].data).value
        /\ \A a \in 1..Len(attempts[1]) :
              (/\ attempts[1][a].phase = "settled"
               /\ attempts[1][a].data.kind /= "undefined"
               /\ objectFactory(attempts[1][a].data).throws)
                  => attempts[1][a].p.st = "rejected"
        /\ (Settled(Returned(1)) /\ Successes(1) /= {})
              => Returned(1).st = "fulfilled"

\* C2 witness: the first candidate was fetched but did not decode, the second
\* decoded, and the call fulfilled with the second one's object.
C2_Witness ==
    /\ Called(1)
    /\ Len(attempts[1]) = 2
    /\ attempts[1][1].data = StringBad
    /\ attempts[1][1].p.st = "rejected"
    /\ attempts[1][2].data = BufferA
    /\ Returned(1) = Fulfilled(ObjA)

\* C3: when every candidate of a non-empty list has failed, the call rejects
\* with the error of the last candidate, which is the error of no earlier
\* candidate.
C3_LastError ==
    (Called(1) /\ Len(urls[1]) > 0) =>
        /\ Returned(1).st = "rejected" =>
              /\ Len(attempts[1]) = Len(urls[1])
              /\ attempts[1][Len(urls[1])].cand = Len(urls[1])
              /\ Returned(1).val = attempts[1][Len(urls[1])].p.val
              /\ Returned(1).val.kind = "error"
              /\ Returned(1).val.n = Len(urls[1])
              /\ \A a \in 1..(Len(urls[1]) - 1) :
                    Returned(1).val /= attempts[1][a].p.val
        /\ (/\ Len(attempts[1]) = Len(urls[1])
            /\ \A a \in 1..Len(attempts[1]) : attempts[1][a].p.st = "rejected")
              => Returned(1) = attempts[1][Len(urls[1])].p

\* C3 witness: two candidates, the first failed to fetch, the second failed
\* to decode, and the call rejected with the decode error.
C3_Witness ==
    /\ Called(1)
    /\ Len(urls[1]) = 2
    /\ Len(attempts[1]) = 2
    /\ attempts[1][1].p.st = "rejected"
    /\ attempts[1][1].p.val.name = "FetchError"
    /\ Returned(1).st = "rejected"
    /\ Returned(1).val.name = "YAMLException"

\* C4: when every started fetch settles, a call of urlGetFirstObject settles,
\* and does so once; it is fulfilled only if a candidate succeeded, and an
\* empty list is rejected without any fetch.
C4_SettlesOnce ==
    /\ Called(1) ~> (Called(1) /\ Settled(Returned(1)))
    /\ [][(Called(1) /\ Settled(Returned(1))) => Returned(1)' = Returned(1)]_vars
    /\ [](Called(1) =>
            /\ Returned(1).st = "fulfilled" => Successes(1) /= {}
            /\ urls[1] = <<>> =>
                  /\ Returned(1).st = "rejected"
                  /\ attempts[1] = <<>>
                  /\ calls[1] = <<>>)

\* C4 witness: three candidates were given, all three fetches failed and the
\* call is rejected.
C4_Witness ==
    /\ Called(1)
    /\ Len(urls[1]) = 3
    /\ Len(calls[1]) = 3
    /\ \A a \in 1..3 : attempts[1][a].p.st = "rejected"
                         /\ attempts[1][a].p.val.name = "FetchError"
    /\ Returned(1).st = "rejected"

\* C5: the caller's options object has the contents it had when the call was
\* made, and every collaborator is called with exactly those contents.
C5_OptionsUnmodified ==
    Called(1) =>
        /\ heap[opt[1]] = given[1]
        /\ \A j \in 1..Len(calls[1]) : calls[1][j].options = given[1]

\* C6: of two interleaved invocations, each calls its collaborators only for
\* its own candidates' URLs, and its outcome is the one determined by its own
\* candidate list and the results of its own fetches.
C6_Independent ==
    \A k \in Calls :
        Called(k) =>
            /\ \A j \in 1..Len(calls[k]) :
                  /\ calls[k][j].cand \in 1..Len(urls[k])
                  /\ calls[k][j].target = urls[k][calls[k][j].cand]
            /\ Settled(Returned(k)) =>
                  IF Successes(k) /= {}
                  THEN Returned(k) = Fulfilled(
                           objectFactory(attempts[k][Min(Successes(k))].data).value)
                  ELSE IF urls[k] = <<>>
                  THEN Returned(k) = Rejected(JsUndefined)
                  ELSE /\ Len(attempts[k]) = Len(urls[k])
                       /\ attempts[k][Len(urls[k])].p.st = "rejected"
                       /\ Returned(k) = Rejected(attempts[k][Len(urls[k])].p.val)

\* C6 witness: both invocations share one options object and each has an HTTP
\* GET in flight, for different URLs.
C6_Witness ==
    /\ Called(1) /\ Called(2)
    /\ opt[1] = opt[2]
    /\ Len(calls[1]) >= 1 /\ Len(calls[2]) >= 1
    /\ calls[1][Len(calls[1])].fn = "preq.get"
    /\ calls[2][Len(calls[2])].fn = "preq.get"
    /\ attempts[1][Len(attempts[1])].phase = "fetching"
    /\ attempts[2][Len(attempts[2])].phase = "fetching"
    /\ calls[1][Len(calls[1])].target /= calls[2][Len(calls[2])].target

IsAbsolutePath(path) == path /= <<>> /\ Head(path) = "/"

\* "strip the scheme to obtain a filesystem path"
StripFileScheme(url) == SubSeq(url, Len(FileScheme) + 1, Len(url))

\* C7: the result of resolveUri carries a protocol, and when it is a file://
\* URL the path after the scheme is absolute.
C7_ResolvedAbsolute ==
    (pure.fn = "resolveUri" /\ pure.done) =>
        /\ uriHasProtocol(pure.result)
        /\ StartsWith(pure.result, FileScheme)
              => IsAbsolutePath(StripFileScheme(pure.result))

Provided(arg) == arg /= Undefined

\* C8: resolveUri gives the result of: append ext iff the identifier has no
\* detected extension and ext is provided; then prepend base iff base is
\* provided and the string has no protocol; then, iff it still has no
\* protocol, replace it by file:// followed by its absolute path.
C8_ResolveSteps ==
    (pure.fn = "resolveUri" /\ pure.done) =>
        LET step1 == IF fileExtension(pure.uri) = <<>> /\ Provided(pure.ext)
                     THEN pure.uri \o pure.ext ELSE pure.uri
            step2 == IF Provided(pure.baseUri) /\ ~ uriHasProtocol(step1)
                     THEN pure.baseUri \o step1 ELSE step1
        IN  /\ uriHasProtocol(step2) => pure.result = step2
            /\ ~ uriHasProtocol(step2) =>
                  /\ StartsWith(pure.result, FileScheme)
                  /\ StripFileScheme(pure.result) = pathResolve(step2)
            /\ uriHasProtocol(pure.uri) => pure.result = step1

\* C8 witness: a qualified identifier without extension was resolved with a
\* base and an extension: the extension was appended, the base was not.
C8_Witness ==
    /\ pure.fn = "resolveUri" /\ pure.done
    /\ pure.uri = UHttp
    /\ pure.baseUri = <<"/","t","/">>
    /\ pure.ext = <<".","y">>
    /\ pure.result = UHttp \o <<".","y">>

\* The candidate lists, collaborator calls and outcome of urlGetFirstObject
\* for the list us, as far as the run has got.
SameAsUrlGetFirstObject(k, us) ==
    /\ urls[k] = us
    /\ Len(prom[k]) = Len(us) + 1
    /\ \A j \in 1..Len(calls[k]) :
          LET g == urlGet(us[calls[k][j].cand], calls[k][j].options)
          IN  /\ calls[k][j].fn = g.fn
              /\ calls[k][j].target =
                    IF g.fn = "readFile" THEN g.path ELSE us[calls[k][j].cand]
    /\ \A a \in 1..Len(attempts[k]) : attempts[k][a].cand = a
    /\ Settled(Returned(k)) =>
          IF Successes(k) /= {}
          THEN Returned(k) = attempts[k][Min(Successes(k))].p
          ELSE /\ Len(attempts[k]) = Len(us)
               /\ Returned(k) = IF us = <<>> THEN Rejected(JsUndefined)
                                ELSE attempts[k][Len(us)].p

\* C9: uriGetFirstObject(uri, bases, ext) behaves as urlGetFirstObject on the
\* list of resolveUri(uri, base, ext) for every base in the given order, a
\* base that is not an array being a list of one.
C9_UriGetFirstObject ==
    (Called(1) /\ entry[1].fn = "uriGetFirstObject") =>
        LET e == entry[1]
        IN  IF e.baseUris.isArray
            THEN /\ Len(urls[1]) = Len(e.baseUris.items)
                 /\ \A i \in 1..Len(urls[1]) :
                       urls[1][i] = resolveUri(e.uri, e.baseUris.items[i], e.ext)
                 /\ SameAsUrlGetFirstObject(1, urls[1])
            ELSE /\ urls[1] = <<resolveUri(e.uri, e.baseUris.items, e.ext)>>
                 /\ SameAsUrlGetFirstObject(1, urls[1])

\* C9 witness: two different bases were given, the first resolved URL failed
\* and the second one delivered the object.
C9_Witness ==
    /\ Called(1)
    /\ entry[1].fn = "uriGetFirstObject"
    /\ entry[1].baseUris.isArray
    /\ Len(entry[1].baseUris.items) = 2
    /\ entry[1].baseUris.items[1] /= entry[1].baseUris.items[2]
    /\ Len(calls[1]) = 2
    /\ calls[1][1].fn = "readFile"
    /\ calls[1][2].fn = "preq.get"
    /\ Returned(1) = Fulfilled(ObjA)

\* C10: every urlGet call invokes exactly one collaborator, chosen by the
\* prefix of the URL: readFile at the URL itself without protocol, readFile at
\* the URL stripped of its scheme for file://, one HTTP GET of the URL
\* otherwise; a failure of the collaborator fails the urlGet.
C10_UrlGetDispatch ==
    Called(1) =>
        /\ Len(calls[1]) = Len(attempts[1])
        /\ \A j \in 1..Len(calls[1]) :
              LET c   == calls[1][j]
                  url == urls[1][c.cand]
              IN  /\ c.attempt = j
                  /\ ~ uriHasProtocol(url) =>
                        c.fn = "readFile" /\ c.target = url
                  /\ StartsWith(url, FileScheme) =>
                        c.fn = "readFile" /\ c.target = StripFileScheme(url)
                  /\ (uriHasProtocol(url) /\ ~ StartsWith(url, FileScheme)) =>
                        c.fn = "preq.get" /\ c.target = url
        /\ \A a \in 1..Len(attempts[1]) :
              (attempts[1][a].phase = "settled"
                  /\ attempts[1][a].data.kind = "undefined")
                  => attempts[1][a].p.st = "rejected"

(***************************************************************************)
(* objectFactory and fileExtension called directly                         *)
(***************************************************************************)
\* C11: objectFactory returns a structured object or fails: a structured
\* object comes back unchanged, a buffer or a string is parsed, any other
\* type of input fails with an Error; whatever it returns is a structured
\* object, never a scalar, null or undefined.
C11_DecodesToObject ==
    (pure.fn = "objectFactory" /\ pure.done) =>
        /\ pure.data.kind = "object" =>
              pure.result = [throws |-> FALSE, value |-> pure.data]
        /\ pure.data.kind \notin {"object", "buffer", "string"} =>
              /\ pure.result.throws
              /\ pure.result.value = [kind |-> "error", name |-> "Error"]
        /\ ~ pure.result.throws => pure.result.value.kind = "object"

\* A purely numeric part in the plain sense: a number literal and nothing
\* around it.
IsNumeral(s) == IsDecimalLiteral(s) \/ IsRadixLiteral(s)

\* Index of the last '.' of s, 0 if there is none.
LastDot(s) ==
    IF \E i \in 1..Len(s) : s[i] = "."
    THEN CHOOSE i \in 1..Len(s) :
            s[i] = "." /\ \A j \in (i + 1)..Len(s) : s[j] /= "."
    ELSE 0

\* C12: fileExtension returns the empty string for an empty or undefined
\* name, for a basename without a '.', and for a basename whose part after
\* the last '.' is entirely numeric; otherwise it returns that part verbatim.
C12_FileExtension ==
    (pure.fn = "fileExtension" /\ pure.done) =>
        LET b    == IF Truthy(pure.filename) THEN basename(pure.filename)
                    ELSE <<>>
            i    == LastDot(b)
            last == SubSeq(b, i + 1, Len(b))
        IN  pure.result =
                IF ~ Truthy(pure.filename) \/ i = 0 \/ IsNumeral(last)
                THEN <<>>
                ELSE last

====
